---- MODULE Spec2Model ----
(***************************************************************************)
(* InvestiSphere: the ticker-scoped FAISS index store (FAISSManager), its  *)
(* local artifacts, the Azure blob mirror and the callers that drive it.   *)
(***************************************************************************)
EXTENDS Integers, Sequences, FiniteSets, TLC

VARIABLES
    local,        \* local filesystem under FAISS_INDEX_PATH: path -> file bytes
    remote,       \* Azure container: blob name -> blob bytes
    index,        \* self.index of each process's FAISSManager
    doc_mapping,  \* self.doc_mapping of each process's FAISSManager
    pc,           \* position of each process inside a running add_to_index
    call,         \* arguments and entry snapshot of the running add_to_index
    last,         \* the call that completed last: arguments and outcome
    history       \* per ticker key: was an index ever written, slots acknowledged

vars == <<local, remote, index, doc_mapping, pc, call, last, history>>

----------------------------------------------------------------------------
(* Bounds of the model *)

MaxSlots == 2     \* the index directory holds at most this many vectors / entries
MaxK == 2         \* largest k passed to search

----------------------------------------------------------------------------
(* Strings are sequences of one-character strings *)

FAISS_INDEX_PATH == <<"f","a","i","s","s","_","i","n","d","e","x">>
INDEX_FILE_NAME == <<"i","n","d","e","x",".","f","a","i","s","s">>
INDEX_MAPPING_FILE_NAME ==
    <<"i","n","d","e","x","_","m","a","p","p","i","n","g",".","p","k","l">>

\* str.upper() on the characters ticker strings are drawn from
UpperChar(c) ==
    CASE c = "a" -> "A"
      [] c = "m" -> "M"
      [] OTHER -> c

Upper(s) == [i \in 1..Len(s) |-> UpperChar(s[i])]

\* os.path.join(a, b)
PathJoin(a, b) ==
    IF Len(b) > 0 /\ b[1] = "/" THEN b ELSE a \o <<"/">> \o b

\* _get_paths without the call of upper()
_get_paths_as_given(ticker) ==
    LET base_name == ticker
        index_file == base_name \o <<"_">> \o INDEX_FILE_NAME
        mapping_file == base_name \o <<"_">> \o INDEX_MAPPING_FILE_NAME
    IN [local_index_path |-> PathJoin(FAISS_INDEX_PATH, index_file),
        local_mapping_path |-> PathJoin(FAISS_INDEX_PATH, mapping_file),
        index_file |-> index_file,
        mapping_file |-> mapping_file]

_get_paths(ticker) ==
    LET base_name == Upper(ticker)
        index_file == base_name \o <<"_">> \o INDEX_FILE_NAME
        mapping_file == base_name \o <<"_">> \o INDEX_MAPPING_FILE_NAME
    IN [local_index_path |-> PathJoin(FAISS_INDEX_PATH, index_file),
        local_mapping_path |-> PathJoin(FAISS_INDEX_PATH, mapping_file),
        index_file |-> index_file,
        mapping_file |-> mapping_file]

----------------------------------------------------------------------------
(* Input domains *)

Tickers == {<<"a">>, <<"A">>, <<"M">>}
Keys == {Upper(t) : t \in Tickers}
Workers == {"w1", "w2"}

\* two tickers with different keys
TwoTickers == {<<"a">>, <<"M">>}

Min(a, b) == IF a <= b THEN a ELSE b

\* vectors are <<0>>, <<1>> (one dimension) and <<0, 1>> (two); documents
\* are "d1" and "d2"

\* embeddings lists passed to create_index / add_to_index: empty, one vector,
\* two vectors of one dimensionality, two of different ones
EmbeddingLists ==
    {<<>>, <<<<0>>>>, <<<<1>>>>, <<<<0, 1>>>>, <<<<0>>, <<1>>>>, <<<<0>>, <<0, 1>>>>}

\* documents lists passed with them
DocumentLists == {<<>>, <<"d1">>, <<"d2">>, <<"d1", "d2">>}

\* query vectors passed to search
Queries == {<<0>>, <<1>>}

----------------------------------------------------------------------------
(* Files and in-memory objects *)

None == [kind |-> "None"]
EmptyFile == [kind |-> "empty"]        \* a zero-byte file

\* faiss.IndexFlatL2(d) holding the vectors vecs at positions 0..Len(vecs)-1
IndexFlatL2(d, vecs) == [kind |-> "IndexFlatL2", d |-> d, vecs |-> vecs]

ntotal(ix) == Len(ix.vecs)

\* dict: a function from its set of keys; {} is the function with no key
EmptyDict == [i \in {} |-> "d1"]
DictLen(m) == Cardinality(DOMAIN m)

exists(fs, path) == path \in DOMAIN fs

WriteFile(fs, path, bytes) ==
    [p \in (DOMAIN fs) \cup {path} |-> IF p = path THEN bytes ELSE fs[p]]

\* faiss.write_index / pickle.dump: the bytes that land in the file
IndexBytes(ix) == [kind |-> "faiss", d |-> ix.d, vecs |-> ix.vecs]
MappingBytes(m) == [kind |-> "pkl", map |-> m]

\* faiss.read_index / pickle.load of a file's bytes: what they give back, or
\* the exception they raise on bytes they cannot parse
ReadIndex(bytes) ==
    IF bytes.kind = "faiss"
    THEN [exc |-> "none", val |-> IndexFlatL2(bytes.d, bytes.vecs)]
    ELSE [exc |-> "RuntimeError", val |-> None]

PickleLoad(bytes) ==
    IF bytes.kind = "pkl"
    THEN [exc |-> "none", val |-> bytes.map]
    ELSE [exc |-> "EOFError", val |-> EmptyDict]

----------------------------------------------------------------------------
(* numpy and faiss calls made by FAISSManager *)

Homogeneous(E) == \A i, j \in 1..Len(E) : Len(E[i]) = Len(E[j])

\* np.array(embeddings, dtype=np.float32): its shape, or ValueError when the
\* rows have different lengths
np_array(E) ==
    IF ~Homogeneous(E) THEN [exc |-> "ValueError", shape |-> <<>>]
    ELSE IF Len(E) = 0 THEN [exc |-> "none", shape |-> <<0>>]
    ELSE [exc |-> "none", shape |-> <<Len(E), Len(E[1])>>]

\* index.add(np.array(E, dtype=np.float32)): "n, d = x.shape", then
\* "assert d == self.d", then the rows are appended
index_add(ix, E) ==
    LET x == np_array(E) IN
    IF x.exc # "none" THEN [exc |-> x.exc, index |-> ix]
    ELSE IF Len(x.shape) # 2 THEN [exc |-> "ValueError", index |-> ix]
    ELSE IF x.shape[2] # ix.d THEN [exc |-> "AssertionError", index |-> ix]
    ELSE [exc |-> "none", index |-> IndexFlatL2(ix.d, ix.vecs \o E)]

RECURSIVE SumSq(_, _, _)
SumSq(a, b, i) ==
    IF i > Len(a) THEN 0
    ELSE (a[i] - b[i]) * (a[i] - b[i]) + SumSq(a, b, i + 1)

\* squared Euclidean distance of IndexFlatL2
L2sqr(a, b) == SumSq(a, b, 1)

\* distance faiss reports in a result slot it could not fill
FLT_MAX == 2147483647

\* ties reported in the opposite order: as near and inserted later
Before_later_first(ix, q, p, r) ==
    LET dp == L2sqr(q, ix.vecs[p + 1])
        dr == L2sqr(q, ix.vecs[r + 1])
    IN dp < dr \/ (dp = dr /\ p > r)

\* position p is reported before position r: nearer, or as near and inserted
\* earlier
Before(ix, q, p, r) ==
    LET dp == L2sqr(q, ix.vecs[p + 1])
        dr == L2sqr(q, ix.vecs[r + 1])
    IN dp < dr \/ (dp = dr /\ p < r)

\* index.search(np.array([q], dtype=np.float32), k): k labels and k
\* distances, nearest first; slots past ntotal hold label -1
index_search(ix, q, k) ==
    IF Len(q) # ix.d \/ k <= 0
    THEN [exc |-> "AssertionError", labels |-> <<>>, distances |-> <<>>]
    ELSE
      LET n == ntotal(ix)
          pos(j) == CHOOSE p \in 0..(n - 1) :
                      Cardinality({r \in 0..(n - 1) : Before(ix, q, r, p)}) = j - 1
          labels == [j \in 1..k |-> IF j <= n THEN pos(j) ELSE -1]
          distances == [j \in 1..k |->
                          IF j <= n THEN L2sqr(q, ix.vecs[labels[j] + 1])
                          ELSE FLT_MAX]
      IN [exc |-> "none", labels |-> labels, distances |-> distances]

----------------------------------------------------------------------------
(* FAISSManager methods as functions of the manager's fields and the local
   filesystem.  Each gives the fields and filesystem the call leaves behind,
   what it returns, and the exception it raises ("none" when it returns) *)

Outcome(ix, dm, fs, ret, exc) ==
    [index |-> ix, doc_mapping |-> dm, local |-> fs, ret |-> ret, exc |-> exc]

load_index(ix, dm, fs, ticker) ==
    LET p == _get_paths(ticker) IN
    IF exists(fs, p.local_index_path) /\ exists(fs, p.local_mapping_path)
    THEN
      LET ri == ReadIndex(fs[p.local_index_path])
          rm == PickleLoad(fs[p.local_mapping_path])
      IN IF ri.exc # "none" THEN Outcome(ix, dm, fs, FALSE, ri.exc)
         ELSE IF rm.exc # "none" THEN Outcome(ri.val, dm, fs, FALSE, rm.exc)
         ELSE Outcome(ri.val, rm.val, fs, TRUE, "none")
    ELSE Outcome(None, EmptyDict, fs, FALSE, "none")

\* the two writes of save_index, in the order the method makes them
write_index_file(ix, fs, ticker) ==
    WriteFile(fs, _get_paths(ticker).local_index_path, IndexBytes(ix))

write_mapping_file(dm, fs, ticker) ==
    WriteFile(fs, _get_paths(ticker).local_mapping_path, MappingBytes(dm))

save_index(ix, dm, fs, ticker) ==
    IF ix # None
    THEN Outcome(ix, dm,
                 write_mapping_file(dm, write_index_file(ix, fs, ticker), ticker),
                 "None", "none")
    ELSE Outcome(ix, dm, fs, "None", "none")

Enumerate(D) == [i \in 0..(Len(D) - 1) |-> D[i + 1]]

create_index(ix, dm, fs, E, D) ==
    IF Len(E) = 0 THEN Outcome(ix, dm, fs, "None", "none")
    ELSE
      LET dimension == Len(E[1])
          fresh == IndexFlatL2(dimension, <<>>)
          added == index_add(fresh, E)
      IN IF added.exc # "none" THEN Outcome(fresh, dm, fs, "None", added.exc)
         ELSE Outcome(added.index, Enumerate(D), fs, "None", "none")

\* lines 79-86: add to the loaded index, then extend the mapping from
\* start_index = len(self.doc_mapping)
append_loaded(ix, dm, fs, E, D) ==
    LET added == index_add(ix, E)
        start_index == DictLen(dm)
        newkeys == {start_index + i : i \in 0..(Len(D) - 1)}
    IN IF added.exc # "none" THEN Outcome(ix, dm, fs, "None", added.exc)
       ELSE Outcome(added.index,
                    [i \in (DOMAIN dm) \cup newkeys |->
                        IF i \in newkeys THEN D[i - start_index + 1] ELSE dm[i]],
                    fs, "None", "none")

\* lines 77-86: the mutation of add_to_index between its load and its save
mutate(ix, dm, fs, E, D) ==
    IF ix = None THEN create_index(ix, dm, fs, E, D)
    ELSE append_loaded(ix, dm, fs, E, D)

add_to_index(ix, dm, fs, ticker, E, D) ==
    LET l == load_index(ix, dm, fs, ticker) IN
    IF l.exc # "none" THEN l
    ELSE
      LET m == mutate(l.index, l.doc_mapping, fs, E, D) IN
      IF m.exc # "none" THEN m
      ELSE save_index(m.index, m.doc_mapping, fs, ticker)

\* search that loads only when the manager holds no index, relying on an
\* earlier call to have loaded the ticker
search_without_reload(ix, dm, fs, ticker, q, k) ==
    LET l == IF ix = None THEN load_index(ix, dm, fs, ticker)
             ELSE Outcome(ix, dm, fs, TRUE, "none")
    IN
    IF l.exc # "none" THEN Outcome(l.index, l.doc_mapping, fs, <<>>, l.exc)
    ELSE IF ~l.ret THEN Outcome(l.index, l.doc_mapping, fs, <<>>, "none")
    ELSE IF l.index = None THEN Outcome(l.index, l.doc_mapping, fs, <<>>, "none")
    ELSE
      LET r == index_search(l.index, q, k) IN
      IF r.exc # "none" THEN Outcome(l.index, l.doc_mapping, fs, <<>>, r.exc)
      ELSE IF \E j \in 1..k : r.labels[j] \notin DOMAIN l.doc_mapping
      THEN Outcome(l.index, l.doc_mapping, fs, <<>>, "KeyError")
      ELSE Outcome(l.index, l.doc_mapping, fs,
                   [j \in 1..k |-> <<l.doc_mapping[r.labels[j]], r.distances[j]>>],
                   "none")

search(ix, dm, fs, ticker, q, k) ==
    LET l == load_index(ix, dm, fs, ticker) IN
    IF l.exc # "none" THEN Outcome(l.index, l.doc_mapping, fs, <<>>, l.exc)
    ELSE IF ~l.ret THEN Outcome(l.index, l.doc_mapping, fs, <<>>, "none")
    ELSE IF l.index = None THEN Outcome(l.index, l.doc_mapping, fs, <<>>, "none")
    ELSE
      LET r == index_search(l.index, q, k) IN
      IF r.exc # "none" THEN Outcome(l.index, l.doc_mapping, fs, <<>>, r.exc)
      ELSE IF \E j \in 1..k : r.labels[j] \notin DOMAIN l.doc_mapping
      THEN Outcome(l.index, l.doc_mapping, fs, <<>>, "KeyError")
      ELSE Outcome(l.index, l.doc_mapping, fs,
                   [j \in 1..k |-> <<l.doc_mapping[r.labels[j]], r.distances[j]>>],
                   "none")

\* a call that also touches the container
RemoteOutcome(o, rm, ret, exc) ==
    [index |-> o.index, doc_mapping |-> o.doc_mapping, local |-> o.local,
     remote |-> rm, ret |-> ret, exc |-> exc]

\* the same with the transfers the call made: the artifacts (1 = index,
\* 2 = mapping) it called upload_blob / download_blob for, and those whose
\* bytes arrived
Transfers(o, attempted, transferred) ==
    [index |-> o.index, doc_mapping |-> o.doc_mapping, local |-> o.local,
     remote |-> o.remote, ret |-> o.ret, exc |-> o.exc,
     attempted |-> attempted, transferred |-> transferred]

\* the upload loop with upload_blob called without overwrite=True: a blob
\* that is already in the container is not replaced
upload_one_no_overwrite(fs, rm, local_path, azure_name, broken) ==
    IF ~exists(fs, local_path) THEN [exc |-> "none", remote |-> rm]
    ELSE IF broken THEN [exc |-> "AzureError", remote |-> rm]
    ELSE IF azure_name \in DOMAIN rm
    THEN [exc |-> "ResourceExistsError", remote |-> rm]
    ELSE [exc |-> "none", remote |-> WriteFile(rm, azure_name, fs[local_path])]

\* one pass of the upload loop (lines 114-117); broken says the transport
\* fails on this upload
upload_one(fs, rm, local_path, azure_name, broken) ==
    IF ~exists(fs, local_path) THEN [exc |-> "none", remote |-> rm]
    ELSE IF broken THEN [exc |-> "AzureError", remote |-> rm]
    ELSE [exc |-> "none", remote |-> WriteFile(rm, azure_name, fs[local_path])]

\* upfail: the artifacts (1 = index, 2 = mapping) whose upload the transport
\* fails
sync_to_azure(ix, dm, fs, rm, ticker, upfail) ==
    LET p == _get_paths(ticker)
        o == Outcome(ix, dm, fs, "None", "none")
        u1 == upload_one(fs, rm, p.local_index_path, p.index_file, 1 \in upfail)
        u2 == upload_one(fs, u1.remote, p.local_mapping_path, p.mapping_file,
                         2 \in upfail)
        attempted ==
            {i \in {1} : exists(fs, p.local_index_path)}
              \cup {i \in {2} : u1.exc = "none" /\ exists(fs, p.local_mapping_path)}
        uploaded == attempted \ upfail
    IN IF u1.exc # "none"
       THEN Transfers(RemoteOutcome(o, u1.remote, "None", u1.exc), attempted, uploaded)
       ELSE Transfers(RemoteOutcome(o, u2.remote, "None", u2.exc), attempted, uploaded)

\* the download loop with the local file opened "ab": the bytes fetched are
\* written after what the file already holds
download_one_append(fs, rm, local_path, azure_name, broken) ==
    LET held == IF exists(fs, local_path) THEN fs[local_path] ELSE EmptyFile
        opened == WriteFile(fs, local_path, held)
    IN IF azure_name \in DOMAIN rm /\ ~broken
       THEN [ok |-> TRUE,
             local |-> WriteFile(opened, local_path,
                                 IF held = EmptyFile THEN rm[azure_name]
                                 ELSE [kind |-> "appended"])]
       ELSE [ok |-> FALSE, local |-> opened]

\* one pass of the download loop (lines 128-135): open(local_path, "wb")
\* creates or truncates the file, then the blob is fetched and written;
\* a missing blob or a broken transport raises inside the try
download_one(fs, rm, local_path, azure_name, broken) ==
    LET opened == WriteFile(fs, local_path, EmptyFile) IN
    IF azure_name \in DOMAIN rm /\ ~broken
    THEN [ok |-> TRUE, local |-> WriteFile(opened, local_path, rm[azure_name])]
    ELSE [ok |-> FALSE, local |-> opened]

sync_from_azure(ix, dm, fs, rm, ticker, downfail) ==
    LET p == _get_paths(ticker)
        d1 == download_one(fs, rm, p.local_index_path, p.index_file, 1 \in downfail)
        d2 == download_one(d1.local, rm, p.local_mapping_path, p.mapping_file,
                           2 \in downfail)
        success == d1.ok /\ d2.ok
        l == load_index(ix, dm, d2.local, ticker)
        downloaded == {i \in {1} : d1.ok} \cup {i \in {2} : d2.ok}
    IN IF success
       THEN Transfers(RemoteOutcome(l, rm, success, l.exc), {1, 2}, downloaded)
       ELSE Transfers(RemoteOutcome(Outcome(ix, dm, d2.local, success, "none"), rm,
                                    success, "none"),
                      {1, 2}, downloaded)

----------------------------------------------------------------------------
(* What is persisted for a ticker *)

HasIndexFile(fs, t) ==
    /\ exists(fs, _get_paths(t).local_index_path)
    /\ fs[_get_paths(t).local_index_path].kind = "faiss"

HasMappingFile(fs, t) ==
    /\ exists(fs, _get_paths(t).local_mapping_path)
    /\ fs[_get_paths(t).local_mapping_path].kind = "pkl"

PersistedVecs(fs, t) ==
    IF HasIndexFile(fs, t) THEN fs[_get_paths(t).local_index_path].vecs ELSE <<>>

PersistedMap(fs, t) ==
    IF HasMappingFile(fs, t) THEN fs[_get_paths(t).local_mapping_path].map
    ELSE EmptyDict

\* both artifacts are there and hold the same positions 0..n-1
WellFormed(fs, t) ==
    /\ HasIndexFile(fs, t)
    /\ HasMappingFile(fs, t)
    /\ DOMAIN PersistedMap(fs, t) = 0..(Len(PersistedVecs(fs, t)) - 1)

----------------------------------------------------------------------------
(* State after construction: FAISSManager.__init__ in every process, an empty
   index directory and an empty container *)

NoFiles == [p \in {} |-> EmptyFile]

NoCall == [ticker |-> <<>>, E |-> <<>>, D |-> <<>>, before |-> NoFiles]

\* flag: the boolean a load_index / sync_from_azure returned; ret: the list a
\* search returned
Completed(op, w, ticker, E, D, q, k, flag, ret, exc) ==
    [op |-> op, worker |-> w, ticker |-> ticker, E |-> E, D |-> D,
     q |-> q, k |-> k, flag |-> flag, ret |-> ret, exc |-> exc]

\* a completed sync call: what it returned ("None", "True" or "False", nothing
\* when it raised) and the transfers it made
CompletedSync(op, w, ticker, flag, returned, o) ==
    [op |-> op, worker |-> w, ticker |-> ticker, E |-> <<>>, D |-> <<>>,
     q |-> <<>>, k |-> 0, flag |-> flag, ret |-> <<>>, exc |-> o.exc,
     returned |-> IF o.exc # "none" THEN "nothing" ELSE returned,
     attempted |-> o.attempted, transferred |-> o.transferred]

Init ==
    /\ local = NoFiles
    /\ remote = NoFiles
    /\ index = [w \in Workers |-> None]
    /\ doc_mapping = [w \in Workers |-> EmptyDict]
    /\ pc = [w \in Workers |-> "idle"]
    /\ call = [w \in Workers |-> NoCall]
    /\ last = Completed("__init__", "w1", <<>>, <<>>, <<>>, <<>>, 0, FALSE, <<>>, "none")
    /\ history = [created |-> {}, acked |-> [key \in Keys |-> 0]]

RECURSIVE SumOver(_, _)
SumOver(f, S) ==
    IF S = {} THEN 0
    ELSE LET x == CHOOSE y \in S : TRUE IN f[x] + SumOver(f, S \ {x})

\* vectors and mapping entries held by the files of a filesystem
StoredVectors(fs) ==
    SumOver([p \in DOMAIN fs |-> IF fs[p].kind = "faiss" THEN Len(fs[p].vecs) ELSE 0],
            DOMAIN fs)
StoredEntries(fs) ==
    SumOver([p \in DOMAIN fs |-> IF fs[p].kind = "pkl" THEN DictLen(fs[p].map) ELSE 0],
            DOMAIN fs)

\* the model's cap on what a manager and the index directory hold
WithinBounds(o) ==
    /\ o.index # None => ntotal(o.index) <= MaxSlots
    /\ DictLen(o.doc_mapping) <= MaxSlots
    /\ StoredVectors(o.local) <= MaxSlots
    /\ StoredEntries(o.local) <= MaxSlots

\* keys whose index artifact has been written at some time
Created(fs) ==
    history.created \cup
      {key \in Keys : exists(fs, _get_paths(key).local_index_path)
                        /\ fs[_get_paths(key).local_index_path].kind = "faiss"}

\* slots acknowledged to callers: an add_to_index that returned has taken
\* the (vector, document) pairs it was given
Acked(done) ==
    IF done.op = "add_to_index" /\ done.exc = "none"
    THEN [history.acked EXCEPT
            ![Upper(done.ticker)] = @ + Min(Len(done.E), Len(done.D))]
    ELSE history.acked

\* a call that runs from entry to return (or raise) in process w
Finish(w, o, done) ==
    /\ pc[w] = "idle"
    /\ WithinBounds(o)
    /\ SumOver(Acked(done), Keys) <= MaxSlots
    /\ index' = [index EXCEPT ![w] = o.index]
    /\ doc_mapping' = [doc_mapping EXCEPT ![w] = o.doc_mapping]
    /\ local' = o.local
    /\ last' = done
    /\ history' = [created |-> Created(o.local), acked |-> Acked(done)]
    /\ UNCHANGED <<pc, call>>

LoadIndex(w, ticker) ==
    LET o == load_index(index[w], doc_mapping[w], local, ticker) IN
    /\ Finish(w, o, Completed("load_index", w, ticker, <<>>, <<>>, <<>>, 0,
                              o.ret, <<>>, o.exc))
    /\ UNCHANGED remote

SaveIndex(w, ticker) ==
    LET o == save_index(index[w], doc_mapping[w], local, ticker) IN
    /\ Finish(w, o, Completed("save_index", w, ticker, <<>>, <<>>, <<>>, 0,
                              FALSE, <<>>, o.exc))
    /\ UNCHANGED remote

CreateIndex(w, E, D) ==
    LET o == create_index(index[w], doc_mapping[w], local, E, D) IN
    /\ Finish(w, o, Completed("create_index", w, <<>>, E, D, <<>>, 0,
                              FALSE, <<>>, o.exc))
    /\ UNCHANGED remote

AddToIndex(w, ticker, E, D) ==
    LET o == add_to_index(index[w], doc_mapping[w], local, ticker, E, D) IN
    /\ Finish(w, o, Completed("add_to_index", w, ticker, E, D, <<>>, 0,
                              FALSE, <<>>, o.exc))
    /\ UNCHANGED remote

Search(w, ticker, q, k) ==
    LET o == search(index[w], doc_mapping[w], local, ticker, q, k) IN
    /\ Finish(w, o, Completed("search", w, ticker, <<>>, <<>>, q, k,
                              FALSE, o.ret, o.exc))
    /\ UNCHANGED remote

SyncToAzure(w, ticker, upfail) ==
    LET o == sync_to_azure(index[w], doc_mapping[w], local, remote, ticker, upfail) IN
    /\ Finish(w, o, CompletedSync("sync_to_azure", w, ticker, FALSE, o.ret, o))
    /\ remote' = o.remote

SyncFromAzure(w, ticker, downfail) ==
    LET o == sync_from_azure(index[w], doc_mapping[w], local, remote, ticker,
                             downfail) IN
    /\ Finish(w, o, CompletedSync("sync_from_azure", w, ticker, o.ret,
                                 IF o.ret THEN "True" ELSE "False", o))
    /\ remote' = o.remote

\* the calls the program makes on its FAISSManager, one after another
Next ==
    \/ \E t \in TwoTickers : LoadIndex("w1", t)
    \/ \E t \in TwoTickers, E \in EmbeddingLists, D \in DocumentLists :
          AddToIndex("w1", t, E, D)
    \/ \E t \in TwoTickers, q \in Queries, k \in 1..MaxK : Search("w1", t, q, k)

Spec == Init /\ [][Next]_vars

----------------------------------------------------------------------------
(* The store with its Azure mirror.  Documents carry their ticker, as the
   scraper builds them (scraper.py lines 37 and 43), and so do the vectors *)

DocOf(ticker) == IF Upper(ticker) = <<"A">> THEN "d1" ELSE "d2"
VecOf(ticker) == IF Upper(ticker) = <<"A">> THEN <<0>> ELSE <<1>>

\* of the two tickers the mirror is exercised with, the one that is ingested
Ingested == {<<"a">>}

NextSync ==
    \/ \E t \in TwoTickers : LoadIndex("w1", t)
    \/ \E t \in Ingested : AddToIndex("w1", t, <<VecOf(t)>>, <<DocOf(t)>>)
    \/ \E t \in TwoTickers, k \in 1..MaxK : Search("w1", t, VecOf(t), k)
    \/ \E t \in TwoTickers, upfail \in SUBSET {1, 2} : SyncToAzure("w1", t, upfail)
    \/ \E t \in TwoTickers, downfail \in SUBSET {1, 2} :
          SyncFromAzure("w1", t, downfail)

SpecSync == Init /\ [][NextSync]_vars

\* the local store with save_index also called on its own
NextOps ==
    \/ \E t \in Tickers : LoadIndex("w1", t)
    \/ \E t \in Tickers : AddToIndex("w1", t, <<VecOf(t)>>, <<DocOf(t)>>)
    \/ \E t \in Tickers, q \in Queries, k \in 1..MaxK : Search("w1", t, q, k)
    \/ \E t \in Tickers : SaveIndex("w1", t)

SpecOps == Init /\ [][NextOps]_vars

\* every public method that works on the local store, create_index included,
\* given empty lists and lists of different lengths as well
ApiEmbeddingLists == {<<>>, <<<<0>>>>, <<<<0>>, <<1>>>>}
ApiDocumentLists == {<<>>, <<"d1">>}

NextApi ==
    \/ \E t \in Tickers : LoadIndex("w1", t)
    \/ \E t \in Tickers : SaveIndex("w1", t)
    \/ \E E \in ApiEmbeddingLists, D \in ApiDocumentLists : CreateIndex("w1", E, D)
    \/ \E t \in Tickers, E \in ApiEmbeddingLists, D \in ApiDocumentLists :
          AddToIndex("w1", t, E, D)
    \/ \E t \in Tickers, k \in 1..MaxK : Search("w1", t, <<0>>, k)

SpecApi == Init /\ [][NextApi]_vars

----------------------------------------------------------------------------
(* add_to_index step by step: load_index, the mutation, then the two writes
   of save_index.  Each process (uvicorn worker, CLI run) has its own
   FAISSManager; all of them share the index directory *)

SumAcked == SumOver(history.acked, Keys)

InFlight(w) == IF pc[w] = "idle" THEN 0 ELSE Len(call[w].E)

Return(w, exc) ==
    /\ pc' = [pc EXCEPT ![w] = "idle"]
    /\ last' = Completed("add_to_index", w, call'[w].ticker, call'[w].E,
                         call'[w].D, <<>>, 0, FALSE, <<>>, exc)
    /\ history' = [created |-> Created(local'), acked |-> Acked(last')]

Proceed(w, to) ==
    /\ pc' = [pc EXCEPT ![w] = to]
    /\ history' = [history EXCEPT !.created = Created(local')]
    /\ UNCHANGED last

\* The steps of an add_to_index that caller w runs on the manager of m: its
\* own manager (m = w), or the one manager that lifespan creates for all
\* requests of a process (api.py lines 30 and 46).
\* line 75
AddBeginOn(w, m, ticker, E, D) ==
    LET o == load_index(index[m], doc_mapping[m], local, ticker) IN
    /\ pc[w] = "idle"
    /\ Len(PersistedVecs(local, ticker)) + Len(E) <= MaxSlots
    /\ SumAcked + SumOver([v \in Workers |-> InFlight(v)], Workers) + Len(E)
          <= MaxSlots
    /\ call' = [call EXCEPT ![w] = [ticker |-> ticker, E |-> E, D |-> D,
                                    before |-> local]]
    /\ index' = [index EXCEPT ![m] = o.index]
    /\ doc_mapping' = [doc_mapping EXCEPT ![m] = o.doc_mapping]
    /\ UNCHANGED <<local, remote>>
    /\ IF o.exc # "none" THEN Return(w, o.exc) ELSE Proceed(w, "loaded")

\* lines 77-86
AddMutateOn(w, m) ==
    LET o == mutate(index[m], doc_mapping[m], local, call[w].E, call[w].D) IN
    /\ pc[w] = "loaded"
    /\ index' = [index EXCEPT ![m] = o.index]
    /\ doc_mapping' = [doc_mapping EXCEPT ![m] = o.doc_mapping]
    /\ UNCHANGED <<local, remote, call>>
    /\ IF o.exc # "none" THEN Return(w, o.exc) ELSE Proceed(w, "mutated")

\* lines 54-55
AddWriteIndexOn(w, m) ==
    /\ pc[w] = "mutated"
    /\ UNCHANGED <<remote, call, index, doc_mapping>>
    /\ IF index[m] = None
       THEN UNCHANGED local /\ Return(w, "none")
       ELSE /\ local' = write_index_file(index[m], local, call[w].ticker)
            /\ Proceed(w, "index_written")

\* lines 56-57
AddWriteMappingOn(w, m) ==
    /\ pc[w] = "index_written"
    /\ local' = write_mapping_file(doc_mapping[m], local, call[w].ticker)
    /\ UNCHANGED <<remote, call, index, doc_mapping>>
    /\ Return(w, "none")

\* a process running add_to_index on its own manager
AddBegin(w, ticker, E, D) == AddBeginOn(w, w, ticker, E, D)
AddMutate(w) == AddMutateOn(w, w)
AddWriteIndex(w) == AddWriteIndexOn(w, w)
AddWriteMapping(w) == AddWriteMappingOn(w, w)

\* the process is killed inside add_to_index and started again
Crash(w) ==
    /\ pc[w] # "idle"
    /\ index' = [index EXCEPT ![w] = None]
    /\ doc_mapping' = [doc_mapping EXCEPT ![w] = EmptyDict]
    /\ UNCHANGED <<local, remote, call>>
    /\ Return(w, "interrupted")

ConcDocumentLists == {<<"d1">>, <<"d2">>}

\* two processes ingesting at the same time
NextConc ==
    \/ \E w \in Workers, t \in Tickers, D \in ConcDocumentLists :
          AddBegin(w, t, <<VecOf(t)>>, D)
    \/ \E w \in Workers : AddMutate(w)
    \/ \E w \in Workers : AddWriteIndex(w)
    \/ \E w \in Workers : AddWriteMapping(w)

SpecConc == Init /\ [][NextConc]_vars

\* one process ingesting, which may be killed at any step
NextCrash ==
    \/ \E t \in Tickers, D \in ConcDocumentLists : AddBegin("w1", t, <<VecOf(t)>>, D)
    \/ AddMutate("w1")
    \/ AddWriteIndex("w1")
    \/ AddWriteMapping("w1")
    \/ Crash("w1")

SpecCrash == Init /\ [][NextCrash]_vars

\* two requests of one process at the same time on the manager they share:
\* an ingestion of one ticker, step by step, and calls for another ticker
SharedManager == "w1"
IngestingTicker == <<"M">>
OtherTicker == <<"a">>

NextShared ==
    \/ AddBeginOn("w2", SharedManager, IngestingTicker,
                  <<VecOf(IngestingTicker)>>, <<DocOf(IngestingTicker)>>)
    \/ AddMutateOn("w2", SharedManager)
    \/ AddWriteIndexOn("w2", SharedManager)
    \/ AddWriteMappingOn("w2", SharedManager)
    \/ LoadIndex(SharedManager, OtherTicker)
    \/ \E k \in 1..MaxK : Search(SharedManager, OtherTicker, VecOf(OtherTicker), k)
    \/ AddToIndex(SharedManager, OtherTicker,
                  <<VecOf(OtherTicker)>>, <<DocOf(OtherTicker)>>)

SpecShared == Init /\ [][NextShared]_vars

----------------------------------------------------------------------------
(* Ingestion and restore across machines.  The container outlives the
   machines; a process started on a new machine has an empty index directory
   (os.makedirs in __init__) and a manager holding nothing *)

NewMachine(w) ==
    /\ pc[w] = "idle"
    /\ local # NoFiles
    /\ local' = NoFiles
    /\ index' = [index EXCEPT ![w] = None]
    /\ doc_mapping' = [doc_mapping EXCEPT ![w] = EmptyDict]
    /\ last' = Completed("__init__", w, <<>>, <<>>, <<>>, <<>>, 0, FALSE, <<>>, "none")
    /\ UNCHANGED <<remote, pc, call, history>>

\* what the scraper does (add_to_index, then sync_to_azure) and what the
\* analysis does first (load_index, sync_from_azure), with the container
\* working
NextDeploy ==
    \/ \E t \in TwoTickers, D \in ConcDocumentLists :
          AddToIndex("w1", t, <<VecOf(t)>>, D)
    \/ \E t \in TwoTickers : SyncToAzure("w1", t, {})
    \/ \E t \in TwoTickers : SyncFromAzure("w1", t, {})
    \/ \E t \in TwoTickers : LoadIndex("w1", t)
    \/ NewMachine("w1")

SpecDeploy == Init /\ [][NextDeploy]_vars

----------------------------------------------------------------------------
(* The embedding provider, the retriever and the fundamental analyst
   (utils.py, rag/retriever.py, agents/fundamental_analyst.py).  A text that
   the code puts together from parts is the sequence of its parts; the empty
   string is the empty sequence *)

\* what client.embeddings.create does for one text: it gives a vector, or
\* it raises
Embedded(v) == [ok |-> TRUE, vec |-> v]
ProviderError == [ok |-> FALSE, vec |-> <<>>]
ProviderAnswers == {ProviderError} \cup {Embedded(q) : q \in Queries}

\* get_openai_embedding with a fallback in the except branch: a zero vector
\* of the store's dimension instead of None
get_openai_embedding_zero_fallback(answer) ==
    IF answer.ok THEN [kind |-> "list", vec |-> answer.vec]
    ELSE [kind |-> "list", vec |-> <<0>>]

\* get_openai_embedding: the vector, or None when the provider raised
get_openai_embedding(answer) ==
    IF answer.ok THEN [kind |-> "list", vec |-> answer.vec] ELSE None

COULD_NOT_EMBED == <<"Could not generate embedding for the query.">>

NoContextFound(ticker) ==
    <<"No context found for ticker: ">> \o ticker
      \o <<". Index may be empty or not yet scraped.">>

SEPARATOR == "\n---\n"

\* sep.join(parts)
RECURSIVE Join(_, _)
Join(sep, parts) ==
    IF Len(parts) = 0 THEN <<>>
    ELSE IF Len(parts) = 1 THEN <<parts[1]>>
    ELSE <<parts[1], sep>> \o Join(sep, Tail(parts))

\* a call on FAISSManager.search, as the manager receives it
SearchCall(ticker, q, k) == [ticker |-> ticker, q |-> q, k |-> k]

\* what a retrieve leaves behind: the manager and files, the string it
\* returns, the searches it made and what the last of them returned
Retrieved(o, context, searches, results, exc) ==
    [index |-> o.index, doc_mapping |-> o.doc_mapping, local |-> o.local,
     context |-> context, searches |-> searches, results |-> results,
     exc |-> exc]

\* lines 45-51 with the distances kept in the text of line 49
format_with_scores(s, ticker, searches) ==
    IF s.exc # "none" THEN Retrieved(s, <<>>, searches, <<>>, s.exc)
    ELSE IF s.ret = <<>>
    THEN Retrieved(s, NoContextFound(ticker), searches, s.ret, "none")
    ELSE Retrieved(s,
                   Join(SEPARATOR,
                        [j \in 1..(2 * Len(s.ret)) |->
                           IF j % 2 = 1 THEN s.ret[(j + 1) \div 2][1]
                           ELSE ToString(s.ret[j \div 2][2])]),
                   searches, s.ret, "none")

\* lines 45-51: what retrieve makes of the outcome s of its search
format(s, ticker, searches) ==
    IF s.exc # "none" THEN Retrieved(s, <<>>, searches, <<>>, s.exc)
    ELSE IF s.ret = <<>>
    THEN Retrieved(s, NoContextFound(ticker), searches, s.ret, "none")
    ELSE Retrieved(s, Join(SEPARATOR, [j \in 1..Len(s.ret) |-> s.ret[j][1]]),
                   searches, s.ret, "none")

\* answer: what the provider does for the query.  The search of line 43 is
\* made once and s is its outcome
retrieve(ix, dm, fs, ticker, answer, k) ==
    LET query_embedding == get_openai_embedding(answer) IN
    IF query_embedding = None
    THEN Retrieved(Outcome(ix, dm, fs, <<>>, "none"), COULD_NOT_EMBED, <<>>, <<>>,
                   "none")
    ELSE CHOOSE o \in {format(s, ticker,
                              <<SearchCall(ticker, query_embedding.vec, k)>>) :
                         s \in {search(ix, dm, fs, ticker, query_embedding.vec, k)}} :
            TRUE

\* Python's binding of a call's arguments to retrieve(self, ticker, query,
\* k=5): a call that leaves a parameter without a default unbound raises
\* TypeError before the body runs
bind_retrieve(positional, k) ==
    IF Len(positional) < 2
    THEN [exc |-> "TypeError", ticker |-> <<>>, query |-> <<>>, k |-> k]
    ELSE [exc |-> "none", ticker |-> positional[1], query |-> positional[2],
          k |-> k]

summary_query(ticker) ==
    <<"Company business summary and financial health for ">> \o ticker
news_query(ticker) == <<"Recent news headlines for ">> \o ticker

\* lines 37-74 of analyze: the contexts r1 and r2 are combined and the chat
\* completion gives the report
combine(r1, r2) ==
    IF r2.exc # "none"
    THEN Retrieved(r2, <<>>, r1.searches \o r2.searches, <<>>, r2.exc)
    ELSE Retrieved(r2,
                   IF r1.context = <<>> /\ r2.context = <<>>
                   THEN <<"Fundamental Analyst: Could not retrieve relevant context.">>
                   ELSE <<"analysis">>,
                   r1.searches \o r2.searches, r2.results, "none")

\* line 34 of analyze, after the first retrieve has given r1: the second
\* retrieve call with its arguments bound as b2
retrieve_news(r1, b2, answer) ==
    IF r1.exc # "none" THEN r1
    ELSE IF b2.exc # "none" THEN Retrieved(r1, <<>>, r1.searches, <<>>, b2.exc)
    ELSE CHOOSE o \in {combine(r1, r2) :
                         r2 \in {retrieve(r1.index, r1.doc_mapping, r1.local,
                                          b2.ticker, answer, b2.k)}} : TRUE

\* FundamentalAnalystAgent.analyze: the two retrieve calls of lines 30 and
\* 34, with the arguments they are written with; answers: what the provider
\* does for the two queries
analyze(ix, dm, fs, ticker, answers) ==
    LET b1 == bind_retrieve(<<summary_query(ticker)>>, 1)
        b2 == bind_retrieve(<<news_query(ticker)>>, 4)
    IN IF b1.exc # "none"
       THEN Retrieved(Outcome(ix, dm, fs, <<>>, "none"), <<>>, <<>>, <<>>, b1.exc)
       ELSE CHOOSE o \in {retrieve_news(r1, b2, answers[2]) :
                            r1 \in {retrieve(ix, dm, fs, b1.ticker, answers[1],
                                             b1.k)}} : TRUE

\* a completed retrieve or analyze: embedded says the provider gave a
\* vector, context is the string returned, ret what the search returned
CompletedRetrieve(op, w, ticker, embedded, q, k, o) ==
    [op |-> op, worker |-> w, ticker |-> ticker, E |-> <<>>, D |-> <<>>,
     q |-> q, k |-> k, flag |-> embedded, ret |-> o.results, exc |-> o.exc,
     context |-> o.context, searches |-> o.searches]

Retrieve(w, ticker, answer, k) ==
    LET o == retrieve(index[w], doc_mapping[w], local, ticker, answer, k) IN
    /\ Finish(w, o, CompletedRetrieve("retrieve", w, ticker, answer.ok,
                                      answer.vec, k, o))
    /\ UNCHANGED remote

Analyze(w, ticker, answers) ==
    LET o == analyze(index[w], doc_mapping[w], local, ticker, answers) IN
    /\ Finish(w, o, CompletedRetrieve("analyze", w, ticker,
                                      answers[1].ok /\ answers[2].ok, <<>>, 0, o))
    /\ UNCHANGED remote

\* the query path on one machine whose container holds nothing: documents
\* are appended, a restore is tried, and the index is searched directly,
\* through the retriever and through the analyst
NextRetrieve ==
    \/ \E t \in TwoTickers, D \in ConcDocumentLists :
          AddToIndex("w1", t, <<VecOf(t)>>, D)
    \/ \E t \in TwoTickers : SyncFromAzure("w1", t, {})
    \/ \E t \in TwoTickers, k \in 1..MaxK : Search("w1", t, VecOf(t), k)
    \/ \E t \in TwoTickers, answer \in ProviderAnswers, k \in 1..MaxK :
          Retrieve("w1", t, answer, k)
    \/ \E t \in TwoTickers, a \in ProviderAnswers : Analyze("w1", t, <<a, a>>)

SpecRetrieve == Init /\ [][NextRetrieve]_vars

----------------------------------------------------------------------------
(* The scraper (data_scraper_agent/scraper.py).  yfinance gives the company
   info, valid or not, and a list of news items; the provider embeds each
   document or fails on it *)

\* the news lists stock.news gives
NewsLists == {<<>>, <<"h1">>, <<"h1", "h2">>}

\* line 37: the info document of an upper-cased ticker
ProcessedInfo(T) == IF T = <<"A">> THEN "A: Company" ELSE "M: Company"

\* line 43: the document of one news item
ProcessedNews(T, item) ==
    IF T = <<"A">>
    THEN (IF item = "h1" THEN "A: Headline h1" ELSE "A: Headline h2")
    ELSE (IF item = "h1" THEN "M: Headline h1" ELSE "M: Headline h2")

\* the vector the provider gives for a text when it embeds it
TextVector(doc) ==
    CASE doc = "A: Company" -> <<0>>
      [] doc = "A: Headline h1" -> <<1>>
      [] doc = "A: Headline h2" -> <<2>>
      [] doc = "M: Company" -> <<3>>
      [] doc = "M: Headline h1" -> <<4>>
      [] OTHER -> <<5>>

\* [x for x, emb in zip(items, embeddings) if emb is not None], from
\* position i on
RECURSIVE NotNoneFrom(_, _, _)
NotNoneFrom(items, embeddings, i) ==
    IF i > Min(Len(items), Len(embeddings)) THEN <<>>
    ELSE IF embeddings[i] # None
    THEN <<items[i]>> \o NotNoneFrom(items, embeddings, i + 1)
    ELSE NotNoneFrom(items, embeddings, i + 1)

\* line 53
valid_embeddings(embeddings) ==
    LET kept == NotNoneFrom(embeddings, embeddings, 1)
    IN [j \in 1..Len(kept) |-> kept[j].vec]

\* the documents handed on without the filter of line 54
valid_documents_unfiltered(documents, embeddings) == documents

\* line 54
valid_documents(documents, embeddings) == NotNoneFrom(documents, embeddings, 1)

\* a call on FAISSManager.add_to_index, as the manager receives it
AddCall(ticker, E, D) == [ticker |-> ticker, E |-> E, D |-> D]

\* what a scrape_and_process leaves behind: the manager, files and blobs,
\* the documents it built, and the add_to_index and sync_to_azure calls it
\* made
Scraped(o, rm, documents, added, synced, returned, exc) ==
    [index |-> o.index, doc_mapping |-> o.doc_mapping, local |-> o.local,
     remote |-> rm, documents |-> documents, added |-> added,
     synced |-> synced, returned |-> returned, exc |-> exc]

\* lines 57-60 as they were before the exception was introduced: a return
\* without a value
no_valid_embeddings_silent_return(o, rm, documents) ==
    Scraped(o, rm, documents, <<>>, <<>>, "None", "none")

\* lines 57-60: no document of the batch was embedded
no_valid_embeddings(o, rm, documents) ==
    Scraped(o, rm, documents, <<>>, <<>>, "nothing", "Exception")

\* info_valid: stock.info passes the check of line 31; news: stock.news;
\* failed: the positions of the documents the provider fails to embed;
\* upfail: the uploads the transport fails
scrape_and_process(ix, dm, fs, rm, ticker, info_valid, news, failed, upfail) ==
    LET T == Upper(ticker)
        before == Outcome(ix, dm, fs, "None", "none")
    IN
    IF ~info_valid THEN Scraped(before, rm, <<>>, <<>>, <<>>, "nothing", "Exception")
    ELSE
      LET shown == SubSeq(news, 1, Min(Len(news), 5))
          documents == <<ProcessedInfo(T)>>
                         \o [i \in 1..Len(shown) |-> ProcessedNews(T, shown[i])]
          embeddings == [i \in 1..Len(documents) |->
                           get_openai_embedding(
                             IF i \in failed THEN ProviderError
                             ELSE Embedded(TextVector(documents[i])))]
          E == valid_embeddings(embeddings)
          D == valid_documents(documents, embeddings)
      IN
      IF E = <<>> THEN no_valid_embeddings(before, rm, documents)
      ELSE
        LET a == add_to_index(ix, dm, fs, T, E, D)
            added == <<AddCall(T, E, D)>>
        IN IF a.exc # "none"
           THEN Scraped(a, rm, documents, added, <<>>, "nothing", a.exc)
           ELSE
             LET s == sync_to_azure(a.index, a.doc_mapping, a.local, rm, T, upfail)
             IN Scraped(s, s.remote, documents, added, <<T>>,
                        IF s.exc = "none" THEN "None" ELSE "nothing", s.exc)

\* a completed scrape_and_process: flag says the company info was valid
CompletedScrape(w, ticker, info_valid, failed, o) ==
    [op |-> "scrape_and_process", worker |-> w, ticker |-> ticker,
     E |-> <<>>, D |-> <<>>, q |-> <<>>, k |-> 0, flag |-> info_valid,
     ret |-> <<>>, exc |-> o.exc, returned |-> o.returned,
     documents |-> o.documents, failed |-> failed, added |-> o.added,
     synced |-> o.synced]

ScrapeAndProcess(w, ticker, info_valid, news, failed, upfail) ==
    LET o == scrape_and_process(index[w], doc_mapping[w], local, remote, ticker,
                                info_valid, news, failed, upfail) IN
    /\ failed \subseteq 1..(1 + Len(news))
    /\ Finish(w, o, CompletedScrape(w, ticker, info_valid, failed, o))
    /\ remote' = o.remote

\* ingestion requests for one ticker, one after another (api.py
\* ingest_data), and the load an analysis begins with
NextIngest ==
    \/ \E t \in Ingested, info_valid \in BOOLEAN, news \in NewsLists,
          failed \in SUBSET (1..3), upfail \in {{}, {2}} :
          ScrapeAndProcess("w1", t, info_valid, news, failed, upfail)
    \/ \E t \in TwoTickers : LoadIndex("w1", t)

SpecIngest == Init /\ [][NextIngest]_vars

----------------------------------------------------------------------------
(* Claims on the sequential store *)

\* C4: in every reachable state the positions of the vector index and the
\* keys of doc_mapping are the same set 0..n-1, in each manager's memory and
\* in each ticker's persisted pair of artifacts.
C4_PositionsEqualKeys ==
    /\ \A w \in Workers :
          LET n == IF index[w] = None THEN 0 ELSE ntotal(index[w])
          IN DOMAIN doc_mapping[w] = 0..(n - 1)
    /\ \A t \in Tickers :
          (HasIndexFile(local, t) \/ HasMappingFile(local, t)) => WellFormed(local, t)

\* C5: a search of a ticker holding n >= 1 slots, with a query of the index's
\* dimensionality and k >= 1, returns exactly min(k, n) pairs in
\* non-decreasing distance order and does not raise.
C5_SearchReturnsMinKN ==
    (/\ last.op = "search"
     /\ WellFormed(local, last.ticker)
     /\ Len(PersistedVecs(local, last.ticker)) >= 1
     /\ Len(last.q) = Len(PersistedVecs(local, last.ticker)[1])
     /\ last.k >= 1)
    => /\ last.exc = "none"
       /\ Len(last.ret) = Min(last.k, Len(PersistedVecs(local, last.ticker)))
       /\ \A j \in 1..(Len(last.ret) - 1) : last.ret[j][2] <= last.ret[j + 1][2]

\* C6: once add_to_index(ticker, [v], [d]) has returned, search(ticker, v, k)
\* returns d first with distance 0 for every k >= 1.
C6_AppendedFoundFirst ==
    (/\ last.op = "add_to_index"
     /\ last.exc = "none"
     /\ Len(last.E) = 1
     /\ Len(last.D) = 1)
    => \A k \in 1..MaxK :
          LET o == search(index[last.worker], doc_mapping[last.worker], local,
                          last.ticker, last.E[1], k)
          IN /\ o.exc = "none"
             /\ Len(o.ret) >= 1
             /\ o.ret[1] = <<last.D[1], 0>>

\* C7: every add_to_index(ticker, E, D) that returns grows the ticker's
\* vector count and mapping by exactly len(D): the old slots stay and D takes
\* the positions right after them.
C7_GrowsByLenD ==
    [][(last'.op = "add_to_index" /\ last'.exc = "none")
       => LET t == last'.ticker
              n == Len(PersistedVecs(local, t))
              D == last'.D
          IN /\ Len(PersistedVecs(local', t)) = n + Len(D)
             /\ DOMAIN PersistedMap(local', t) =
                   (DOMAIN PersistedMap(local, t)) \cup {n + i : i \in 0..(Len(D) - 1)}
             /\ \A i \in DOMAIN PersistedMap(local, t) :
                   PersistedMap(local', t)[i] = PersistedMap(local, t)[i]
             /\ \A i \in 0..(Len(D) - 1) : PersistedMap(local', t)[n + i] = D[i + 1]
      ]_vars

\* C8: add_to_index with a vector whose length differs from the ticker's
\* established dimensionality raises DimensionMismatchError and leaves the
\* ticker's persisted artifacts as they were.
C8_DimensionMismatchError ==
    [][(/\ last'.op = "add_to_index"
        /\ WellFormed(local, last'.ticker)
        /\ Len(PersistedVecs(local, last'.ticker)) >= 1
        /\ \E i \in 1..Len(last'.E) :
              Len(last'.E[i]) # Len(PersistedVecs(local, last'.ticker)[1]))
       => /\ last'.exc = "DimensionMismatchError"
          /\ local' = local
      ]_vars

\* C9: add_to_index and create_index given an empty embeddings list, or
\* lists of different lengths, raise InvalidInputError and change neither
\* the manager's index / mapping nor the persisted artifacts.
C9_InvalidInputError ==
    [][(/\ last'.op \in {"add_to_index", "create_index"}
        /\ (Len(last'.E) = 0 \/ Len(last'.E) # Len(last'.D)))
       => /\ last'.exc = "InvalidInputError"
          /\ local' = local
          /\ last'.op = "create_index" =>
                /\ index'[last'.worker] = index[last'.worker]
                /\ doc_mapping'[last'.worker] = doc_mapping[last'.worker]
      ]_vars

----------------------------------------------------------------------------
(* Claims on isolation, concurrency and interruption *)

Range(f) == {f[i] : i \in DOMAIN f}

SearchResult(ix, dm, fs, t, q, k) ==
    LET o == search(ix, dm, fs, t, q, k) IN <<o.ret, o.exc>>

\* C1: an add_to_index for one ticker changes no search result of a ticker
\* with another uppercase form, and no ticker's persisted artifacts hold a
\* document or vector that was passed to add_to_index for another ticker.
C1_Isolation ==
    [][/\ last'.op = "add_to_index" =>
            \A t2 \in Tickers, q \in Queries, k \in 1..MaxK :
               Upper(t2) # Upper(last'.ticker) =>
                  SearchResult(index'[last'.worker], doc_mapping'[last'.worker],
                               local', t2, q, k)
                  = SearchResult(index[last'.worker], doc_mapping[last'.worker],
                                 local, t2, q, k)
       /\ \A t1, t2 \in Tickers :
            Upper(t1) # Upper(t2) =>
               /\ DocOf(t1) \notin Range(PersistedMap(local', t2))
               /\ VecOf(t1) \notin Range(PersistedVecs(local', t2))
      ]_vars

\* C2: when no add_to_index is running, each ticker's persisted index holds
\* every slot whose add_to_index has returned, also when the calls of two
\* processes overlapped.
C2_NoLostUpdate ==
    (\A w \in Workers : pc[w] = "idle")
    => \A key \in Keys :
          /\ Len(PersistedVecs(local, key)) >= history.acked[key]
          /\ DictLen(PersistedMap(local, key)) >= history.acked[key]

\* what a later load_index of the ticker gets from a filesystem
View(fs, t) ==
    LET o == load_index(None, EmptyDict, fs, t)
    IN <<o.index, o.doc_mapping, o.ret, o.exc>>

\* C3: after an add_to_index that was interrupted at any step, a load_index
\* of the ticker sees what it saw before the call or what it sees after the
\* complete call, never anything else.
C3_AllOrNothing ==
    (last.op = "add_to_index" /\ last.exc = "interrupted")
    => LET c == call[last.worker]
           all == add_to_index(None, EmptyDict, c.before, c.ticker, c.E, c.D).local
       IN View(local, c.ticker) \in {View(c.before, c.ticker), View(all, c.ticker)}

\* C10: a search of a ticker whose index was never created returns the empty
\* list and does not raise.
C10_SearchUnknownTicker ==
    (last.op = "search" /\ Upper(last.ticker) \notin history.created)
    => /\ last.exc = "none"
       /\ last.ret = <<>>

----------------------------------------------------------------------------
(* Claims on load_index and the Azure mirror *)

\* C11: load_index(ticker) returns true with the manager holding the ticker's
\* persisted index and mapping when both artifacts are there; when the
\* ticker's state is absent (an artifact is missing, or no index of the
\* ticker was ever written) it returns false with index None and an empty
\* mapping, and it does not raise.
C11_LoadIndexTotal ==
    last.op = "load_index"
    => LET t == last.ticker
           p == _get_paths(t)
           w == last.worker
           present == HasIndexFile(local, t) /\ HasMappingFile(local, t)
           absent == \/ ~exists(local, p.local_index_path)
                     \/ ~exists(local, p.local_mapping_path)
                     \/ Upper(t) \notin history.created
       IN /\ present => /\ last.exc = "none"
                         /\ last.flag
                         /\ index[w] = IndexFlatL2(local[p.local_index_path].d,
                                                   PersistedVecs(local, t))
                         /\ doc_mapping[w] = PersistedMap(local, t)
          /\ absent => /\ last.exc = "none"
                        /\ ~last.flag
                        /\ index[w] = None
                        /\ doc_mapping[w] = EmptyDict

\* C12: sync_to_azure(ticker) attempts the upload of each artifact it finds
\* locally whether or not the other upload failed: with both files present,
\* both uploads are attempted.
C12_UploadsIndependent ==
    (/\ last.op = "sync_to_azure"
     /\ exists(local, _get_paths(last.ticker).local_index_path)
     /\ exists(local, _get_paths(last.ticker).local_mapping_path))
    => last.attempted = {1, 2}

\* C13: sync_to_azure(ticker) does not raise and returns a flag that is true
\* exactly when both artifacts were uploaded; when only the mapping upload
\* fails the index artifact is in the container.
C13_UploadFlag ==
    last.op = "sync_to_azure"
    => /\ last.exc = "none"
       /\ (last.returned = "True") <=> (last.transferred = {1, 2})
       /\ last.transferred = {1} =>
              /\ _get_paths(last.ticker).index_file \in DOMAIN remote
              /\ remote[_get_paths(last.ticker).index_file]
                    = local[_get_paths(last.ticker).local_index_path]

\* C14: sync_from_azure(ticker) attempts both downloads, does not raise, and
\* returns true exactly when both artifacts were retrieved.
C14_DownloadFlag ==
    last.op = "sync_from_azure"
    => /\ last.attempted = {1, 2}
       /\ last.exc = "none"
       /\ (last.returned = "True") <=> (last.transferred = {1, 2})

\* the file at a path, or that there is none
FileAt(fs, path) == IF exists(fs, path) THEN fs[path] ELSE [kind |-> "absent"]

\* C15: a download of sync_from_azure(ticker) that fails leaves the local
\* file of that artifact as it was: same content, or still absent.
C15_FailedDownloadKeepsLocal ==
    [][last'.op = "sync_from_azure" =>
          LET p == _get_paths(last'.ticker) IN
          /\ 1 \notin last'.transferred =>
                FileAt(local', p.local_index_path) = FileAt(local, p.local_index_path)
          /\ 2 \notin last'.transferred =>
                FileAt(local', p.local_mapping_path)
                  = FileAt(local, p.local_mapping_path)
      ]_vars

\* what a ticker's blobs in the container hold
RemoteVecs(rm, t) ==
    IF _get_paths(t).index_file \in DOMAIN rm /\ rm[_get_paths(t).index_file].kind = "faiss"
    THEN rm[_get_paths(t).index_file].vecs ELSE <<>>

RemoteMap(rm, t) ==
    IF _get_paths(t).mapping_file \in DOMAIN rm
         /\ rm[_get_paths(t).mapping_file].kind = "pkl"
    THEN rm[_get_paths(t).mapping_file].map ELSE EmptyDict

\* sync_to_azure(t) on a store, then sync_from_azure(t) on a machine whose
\* index directory is empty
RoundTrip(fs, rm, t) ==
    LET up == sync_to_azure(None, EmptyDict, fs, rm, t, {})
    IN sync_from_azure(None, EmptyDict, NoFiles, up.remote, t, {})

\* C16: for a ticker with a persisted index, sync_to_azure followed from an
\* empty local store by sync_from_azure succeeds and gives a local state on
\* which every search of the ticker returns what it returned before.
C16_RoundTrip ==
    \A t \in Tickers :
       (HasIndexFile(local, t) /\ HasMappingFile(local, t))
       => LET rt == RoundTrip(local, remote, t) IN
          /\ rt.exc = "none"
          /\ rt.ret
          /\ \A q \in Queries, k \in 1..MaxK :
                SearchResult(rt.index, rt.doc_mapping, rt.local, t, q, k)
                = SearchResult(index["w1"], doc_mapping["w1"], local, t, q, k)

\* C16 witness: on a new machine, where the other ticker's files are gone,
\* sync_from_azure has restored the ticker that was synced to the
\* container, and a search of it finds the document.
C16_Witness ==
    /\ last.op = "sync_from_azure"
    /\ last.returned = "True"
    /\ history.created = {<<"A">>, <<"M">>}
    /\ ~exists(local, _get_paths(<<"M">>).local_index_path)
    /\ PersistedVecs(local, last.ticker) # <<>>
    /\ SearchResult(index["w1"], doc_mapping["w1"], local, last.ticker,
                    VecOf(last.ticker), 1)[1] # <<>>

\* C17: add_to_index starts a ticker's index afresh only when the ticker
\* has no copy locally and none in the container, and a sync_to_azure never
\* replaces a ticker's index in the container by one that lacks a slot the
\* container held.
C17_NoFreshIndexOverRemote ==
    [][/\ (/\ last'.op = "add_to_index"
            /\ last'.exc = "none"
            /\ ~HasIndexFile(local, last'.ticker)
            /\ HasIndexFile(local', last'.ticker))
          => RemoteVecs(remote, last'.ticker) = <<>>
       /\ last'.op = "sync_to_azure"
          => LET t == last'.ticker IN
             /\ Len(RemoteVecs(remote', t)) >= Len(RemoteVecs(remote, t))
             /\ \A i \in DOMAIN RemoteMap(remote, t) :
                   /\ i \in DOMAIN RemoteMap(remote', t)
                   /\ RemoteMap(remote', t)[i] = RemoteMap(remote, t)[i]
      ]_vars

----------------------------------------------------------------------------
(* Claims on naming and on the manager's fields *)

\* ticker strings of one or two letters in either case
TickerChars == {"a", "A", "M"}
TickerStrings ==
    {<<c>> : c \in TickerChars} \cup {<<c, e>> : c \in TickerChars, e \in TickerChars}

LocalNames(t) == {_get_paths(t).local_index_path, _get_paths(t).local_mapping_path}
BlobNames(t) == {_get_paths(t).index_file, _get_paths(t).mapping_file}

\* C18: ticker strings that differ only in letter case get the same four
\* names from _get_paths, tickers with different uppercase forms share no
\* local path and no blob name, and every file in the index directory and
\* every blob in the container carries the name of exactly one ticker key.
C18_PathNaming ==
    /\ \A t1, t2 \in TickerStrings :
          /\ Upper(t1) = Upper(t2) => _get_paths(t1) = _get_paths(t2)
          /\ Upper(t1) # Upper(t2) =>
                /\ LocalNames(t1) \cap LocalNames(t2) = {}
                /\ BlobNames(t1) \cap BlobNames(t2) = {}
          /\ _get_paths(t1).local_index_path # _get_paths(t2).local_mapping_path
          /\ _get_paths(t1).index_file # _get_paths(t2).mapping_file
    /\ \A path \in DOMAIN local :
          Cardinality({key \in Keys : path \in LocalNames(key)}) = 1
    /\ \A name \in DOMAIN remote :
          Cardinality({key \in Keys : name \in BlobNames(key)}) = 1

\* C18 witness: the files written and the blobs uploaded for the lowercase
\* ticker carry the names of the uppercase one, next to the files and blobs
\* of a ticker with another key.
C18_Witness ==
    /\ last.op = "sync_to_azure"
    /\ last.ticker = <<"a">>
    /\ last.transferred = {1, 2}
    /\ DOMAIN local = LocalNames(<<"A">>) \cup LocalNames(<<"M">>)
    /\ DOMAIN remote = BlobNames(<<"A">>) \cup BlobNames(<<"M">>)
    /\ Cardinality(DOMAIN local) = 4
    /\ Cardinality(DOMAIN remote) = 4

\* the files of one ticker, and the files of all the others
FilesOf(fs, t) == [path \in (DOMAIN fs) \cap LocalNames(t) |-> fs[path]]
FilesOfOthers(fs, t) == [path \in (DOMAIN fs) \ LocalNames(t) |-> fs[path]]

\* C19: whatever the manager holds from earlier calls, search(T, q, k)
\* returns, and add_to_index(T, E, D) persists and raises, what a newly
\* constructed FAISSManager does on T's own files alone; the files of the
\* other tickers are not touched.
C19_NoAmbientTicker ==
    \A t \in Tickers :
       /\ \A q \in Queries, k \in 1..MaxK :
             LET here == search(index["w1"], doc_mapping["w1"], local, t, q, k)
                 new == search(None, EmptyDict, FilesOf(local, t), t, q, k)
             IN here.ret = new.ret /\ here.exc = new.exc
       /\ \A E \in EmbeddingLists, D \in DocumentLists :
             LET here == add_to_index(index["w1"], doc_mapping["w1"], local, t, E, D)
                 new == add_to_index(None, EmptyDict, FilesOf(local, t), t, E, D)
             IN /\ here.exc = new.exc
                /\ FilesOf(here.local, t) = new.local
                /\ FilesOfOthers(here.local, t) = FilesOfOthers(local, t)

\* C19 witness: a search has left one ticker's index in the manager while
\* another ticker has a persisted index with other content.
C19_Witness ==
    /\ last.op = "search"
    /\ last.ticker = <<"M">>
    /\ last.ret # <<>>
    /\ index["w1"] # None
    /\ index["w1"].vecs = PersistedVecs(local, <<"M">>)
    /\ PersistedVecs(local, <<"A">>) # <<>>
    /\ PersistedVecs(local, <<"A">>) # PersistedVecs(local, <<"M">>)
    /\ PersistedMap(local, <<"A">>) # PersistedMap(local, <<"M">>)

\* C20: when an add_to_index of one ticker overlaps, at any of its steps,
\* with calls for another ticker on the manager the requests share, each
\* ticker's persisted index holds only its own vectors and documents, holds
\* every slot acknowledged for it once no call is running, and a search
\* returns only documents of the ticker searched.
C20_DifferentTickersCoexist ==
    /\ \A t1, t2 \in TwoTickers :
          Upper(t1) # Upper(t2) =>
             /\ Range(PersistedMap(local, t2)) \subseteq {DocOf(t2)}
             /\ Range(PersistedVecs(local, t2)) \subseteq {VecOf(t2)}
    /\ (\A w \in Workers : pc[w] = "idle") =>
          \A key \in Keys :
             /\ Len(PersistedVecs(local, key)) = history.acked[key]
             /\ DOMAIN PersistedMap(local, key) = 0..(history.acked[key] - 1)
    /\ (last.op = "search" /\ last.exc = "none") =>
          \A j \in 1..Len(last.ret) : last.ret[j][1] = DocOf(last.ticker)

----------------------------------------------------------------------------
(* Claims on the retriever and the analyst *)

\* C21: when the embedding provider fails to embed the query, retrieve
\* returns the fixed "could not embed" sentinel, raises nothing and makes no
\* call on FAISSManager.search.
C21_EmbeddingFailureSentinel ==
    (last.op = "retrieve" /\ ~last.flag) =>
       /\ last.exc = "none"
       /\ last.context = COULD_NOT_EMBED
       /\ last.searches = <<>>

\* C21 witness: a retrieve whose query could not be embedded has returned
\* the sentinel for a ticker whose persisted index holds documents.
C21_Witness ==
    /\ last.op = "retrieve"
    /\ ~last.flag
    /\ last.context = COULD_NOT_EMBED
    /\ PersistedVecs(local, last.ticker) # <<>>

\* C22: when the query is embedded and the ticker has no index holding
\* vectors, so that a search has no result to give, retrieve returns the
\* non-empty "no context for ticker" sentinel: never the empty string, never
\* an exception.
C22_NoContextSentinel ==
    (/\ last.op = "retrieve"
     /\ last.flag
     /\ PersistedVecs(local, last.ticker) = <<>>) =>
       /\ last.exc = "none"
       /\ last.context = NoContextFound(last.ticker)
       /\ last.context # <<>>

\* C23: when the search returns at least one result, retrieve returns the
\* documents of the results, without the distances, in the order in which
\* search returned them, with the separator "\n---\n" between neighbours.
C23_JoinInSearchOrder ==
    (last.op = "retrieve" /\ last.exc = "none" /\ last.ret # <<>>) =>
       LET n == Len(last.ret) IN
       /\ last.ret = search(index["w1"], doc_mapping["w1"], local, last.ticker,
                            last.q, last.k).ret
       /\ Len(last.context) = 2 * n - 1
       /\ \A j \in 1..n : last.context[2 * j - 1] = last.ret[j][1]
       /\ \A j \in 1..(n - 1) : last.context[2 * j] = "\n---\n"

\* C23 witness: a retrieve has returned two different documents.
C23_Witness ==
    /\ last.op = "retrieve"
    /\ last.exc = "none"
    /\ Len(last.ret) = 2
    /\ last.ret[1][1] # last.ret[2][1]
    /\ Len(last.context) = 3

C30_AnalyzePassesTicker ==
    (last.op = "analyze") =>
       /\ last.exc # "TypeError"
       /\ last.flag =>
             /\ Len(last.searches) = 2
             /\ last.searches[1].ticker = last.ticker /\ last.searches[1].k = 1
             /\ last.searches[2].ticker = last.ticker /\ last.searches[2].k = 4

----------------------------------------------------------------------------
(* Claims on the scraper *)

\* C24: a scrape_and_process in which every document of the batch fails to
\* embed raises, makes no add_to_index and no sync_to_azure call, and leaves
\* the local files and the container as they were.
C24_AllEmbeddingsFail ==
    [][(/\ last'.op = "scrape_and_process"
        /\ last'.flag
        /\ last'.failed = 1..Len(last'.documents)) =>
          /\ last'.exc = "Exception"
          /\ last'.added = <<>>
          /\ last'.synced = <<>>
          /\ local' = local
          /\ remote' = remote]_vars

\* C24 witness: a scrape_and_process with three documents, none of them
\* embedded, has raised for a ticker that has a local index and blobs.
C24_Witness ==
    /\ last.op = "scrape_and_process"
    /\ last.flag
    /\ Len(last.documents) = 3
    /\ last.failed = {1, 2, 3}
    /\ last.exc = "Exception"
    /\ PersistedVecs(local, last.ticker) # <<>>
    /\ RemoteVecs(remote, last.ticker) # <<>>

\* C28: when some but not all documents of a batch fail to embed,
\* scrape_and_process makes one add_to_index call whose lists have equal
\* length, hold exactly the embedded documents in their original order, each
\* at the position of its own embedding, and these are the last slots of the
\* ticker's persisted index afterwards.
C28_PartialFailureKeepsPairs ==
    (/\ last.op = "scrape_and_process"
     /\ last.flag
     /\ last.failed # {}
     /\ last.failed # 1..Len(last.documents)) =>
       LET ok == (1..Len(last.documents)) \ last.failed
           nth(j) == CHOOSE i \in ok : Cardinality({x \in ok : x < i}) = j - 1
           m == Cardinality(ok)
           vecs == PersistedVecs(local, last.ticker)
           map == PersistedMap(local, last.ticker)
           n == Len(vecs)
       IN /\ Len(last.added) = 1
          /\ last.added[1].ticker = Upper(last.ticker)
          /\ Len(last.added[1].E) = m
          /\ Len(last.added[1].D) = m
          /\ \A j \in 1..m :
                /\ last.added[1].D[j] = last.documents[nth(j)]
                /\ last.added[1].E[j] = TextVector(last.documents[nth(j)])
          /\ n >= m
          /\ DOMAIN map = 0..(n - 1)
          /\ \A j \in 1..m :
                /\ map[n - m + j - 1] = last.added[1].D[j]
                /\ vecs[n - m + j] = last.added[1].E[j]

\* C28 witness: of three documents the second failed to embed, and the
\* first and the third were appended with their own vectors.
C28_Witness ==
    /\ last.op = "scrape_and_process"
    /\ last.exc = "none"
    /\ Len(last.documents) = 3
    /\ last.failed = {2}
    /\ Len(last.added) = 1
    /\ last.added[1].D = <<last.documents[1], last.documents[3]>>
    /\ PersistedVecs(local, last.ticker)
         = <<TextVector(last.documents[1]), TextVector(last.documents[3])>>

----------------------------------------------------------------------------
(* Claims on repeated syncs, recovery and the lifetime of slots *)

\* C25: a sync_to_azure(ticker) that directly follows a sync_to_azure of
\* the same ticker with the same transfers leaves the container as it was,
\* and a sync_from_azure(ticker) that directly follows a sync_from_azure of
\* the same ticker with the same transfers leaves the local files and the
\* manager's loaded index and mapping as they were.
C25_SyncIdempotent ==
    [][/\ (/\ last.op = "sync_to_azure" /\ last'.op = "sync_to_azure"
           /\ last'.ticker = last.ticker
           /\ last'.transferred = last.transferred) => remote' = remote
       /\ (/\ last.op = "sync_from_azure" /\ last'.op = "sync_from_azure"
           /\ last'.ticker = last.ticker
           /\ last'.transferred = last.transferred) =>
             /\ local' = local
             /\ index' = index
             /\ doc_mapping' = doc_mapping]_vars

\* C25 witness: a sync_from_azure has fetched both artifacts of a ticker
\* with stored vectors and loaded them, and running sync_to_azure and
\* sync_from_azure once more from here changes neither the container, the
\* files nor the manager.
C25_Witness ==
    /\ last.op = "sync_from_azure"
    /\ last.transferred = {1, 2}
    /\ last.exc = "none"
    /\ PersistedVecs(local, last.ticker) # <<>>
    /\ index["w1"] # None
    /\ index["w1"].vecs = PersistedVecs(local, last.ticker)
    /\ LET up == sync_to_azure(index["w1"], doc_mapping["w1"], local, remote,
                               last.ticker, {})
           down == sync_from_azure(index["w1"], doc_mapping["w1"], local, remote,
                                   last.ticker, {})
       IN /\ up.remote = remote
          /\ down.local = local
          /\ down.index = index["w1"]
          /\ down.doc_mapping = doc_mapping["w1"]

\* C26: after a sync_from_azure(ticker) has returned False for a ticker
\* whose index was never written locally and that has no blob in the
\* container, load_index(ticker) returns False without raising,
\* search(ticker, q, 1) returns the empty list, and add_to_index(ticker,
\* [v], [d]) returns and leaves the ticker an index holding that one slot.
C26_FailedRestoreRecoverable ==
    (/\ last.op = "sync_from_azure"
     /\ last.returned = "False"
     /\ Upper(last.ticker) \notin history.created
     /\ BlobNames(last.ticker) \cap DOMAIN remote = {}) =>
       LET t == last.ticker
           l == load_index(index["w1"], doc_mapping["w1"], local, t)
           s == search(index["w1"], doc_mapping["w1"], local, t, VecOf(t), 1)
           a == add_to_index(index["w1"], doc_mapping["w1"], local, t,
                             <<VecOf(t)>>, <<DocOf(t)>>)
       IN /\ l.exc = "none" /\ ~l.ret
          /\ s.exc = "none" /\ s.ret = <<>>
          /\ a.exc = "none"
          /\ PersistedVecs(a.local, t) = <<VecOf(t)>>
          /\ PersistedMap(a.local, t) = Enumerate(<<DocOf(t)>>)

\* C27: a call on the store never takes a slot away or changes it: every
\* position that holds a document and a vector in a ticker's local index, or
\* in its copy in the container, holds the same document and vector there
\* after the call.
C27_AppendOnlySlots ==
    [][last'.op # "__init__" =>
         \A t \in TwoTickers :
            /\ \A p \in DOMAIN PersistedMap(local, t) :
                  p < Len(PersistedVecs(local, t)) =>
                     /\ p \in DOMAIN PersistedMap(local', t)
                     /\ PersistedMap(local', t)[p] = PersistedMap(local, t)[p]
                     /\ p < Len(PersistedVecs(local', t))
                     /\ PersistedVecs(local', t)[p + 1] = PersistedVecs(local, t)[p + 1]
            /\ \A p \in DOMAIN RemoteMap(remote, t) :
                  p < Len(RemoteVecs(remote, t)) =>
                     /\ p \in DOMAIN RemoteMap(remote', t)
                     /\ RemoteMap(remote', t)[p] = RemoteMap(remote, t)[p]
                     /\ p < Len(RemoteVecs(remote', t))
                     /\ RemoteVecs(remote', t)[p + 1] = RemoteVecs(remote, t)[p + 1]]_vars

====
